---------------------------- MODULE Spec2Model ----------------------------
(***************************************************************************)
(* CombineXL (src/excel_combiner.py): the worker thread that combines an   *)
(* ordered list of workbooks into one sheet, the two cell copy strategies, *)
(* the merged-range remapping, the progress queue and the cancel event,    *)
(* and App.check_queue, which polls the queue in the main thread.          *)
(*                                                                         *)
(* Library behaviour the model relies on (openpyxl):                       *)
(*  - ws.max_row is the largest row holding a cell (1 for an empty sheet); *)
(*    ws.cell(row, column) creates the cell when it is absent, so reading  *)
(*    a row past max_row raises max_row to that row;                       *)
(*  - cell._style is the tuple of indices into the style tables of the     *)
(*    cell's own workbook; cell.font, cell.fill, ... resolve it there;     *)
(*  - ws.merge_cells raises only for coordinates outside the sheet.        *)
(* Row heights, hyperlinks and comments are copied by both strategies with *)
(* the same statements and are left out.                                   *)
(***************************************************************************)
EXTENDS Integers, Sequences, FiniteSets, TLC

\* ------------------------------------------------------------- bounds
MaxFiles == 3
MaxRow == 2
MaxCol == 2
MaxHeading == 2
MaxDelete == 1

\* openpyxl's largest column index (get_column_letter raises past "ZZZ").
MaxColumnIndex == 18278

\* The value of an empty cell.
None == <<>>

\* No call has raised.
NoRaise == [op |-> "none", file |-> 0]

VARIABLES
    files,            \* the ordered workbooks: [max_row, merged, book]
    heading_rows,
    delete_rows,
    include_filename,
    use_version2,     \* copy_cell/copy_row are the v2 functions
    cancel_event,
    progress_queue,   \* messages put so far, oldest first
    pc,               \* the worker's position
    i,                \* index of the file being processed (1-based)
    src_row,          \* the running row loop's variable
    end_row,          \* the running row loop's last row
    tgt_row_idx,
    block_tgt_start_row,
    ws_max_row,       \* ws.max_row of the loaded sheet
    cells,            \* combined_ws: <<row, column>> -> [value, style]
    merged,           \* combined_ws.merged_cells.ranges
    col_widths,       \* combined_ws.column_dimensions: columns given a width
    style_cache,
    saved,            \* combined_wb.save(output_file) has written the file
    warnings,         \* "Warning: Could not merge range" lines printed
    writes,           \* history: the copy_row calls, in order
    loaded,           \* history: the files load_workbook was called on
    raised,           \* history: the call that raised, [op, file], or NoRaise
    worker_alive,     \* worker_thread.is_alive()
    taken,            \* messages check_queue has got from progress_queue
    check_queue_pc,   \* App.check_queue's position
    finished          \* history: the results given to on_task_finished

vars == <<files, heading_rows, delete_rows, include_filename, use_version2,
          cancel_event, progress_queue, pc, i, src_row, end_row, tgt_row_idx,
          block_tgt_start_row, ws_max_row, cells, merged, col_widths,
          style_cache, saved, warnings, writes, loaded, raised,
          worker_alive, taken, check_queue_pc, finished>>

\* ------------------------------------------------------ source workbooks

\* A merged range of a sheet.
MergeRange(r1, r2) ==
    [min_row |-> r1, max_row |-> r2, min_col |-> 1, max_col |-> MaxCol]

\* The merged ranges a sheet of n rows may hold: the reader creates the
\* cells of every merged range, so a range never reaches past max_row.
RangesWithin(n) ==
    {MergeRange(p[1], p[2]) : p \in {q \in (1..n) \X (1..n) : q[1] <= q[2]}}

\* The merged-range layouts of a sheet of n rows; the sheets drawn hold at
\* most one merged range.
MergeLayouts(n) == {{}} \cup {{m} : m \in RangesWithin(n)}

\* The workbooks of a run come from one template: they share the layout of
\* merged ranges (a sheet holds the ranges that fit its rows) and differ in
\* length; they share one style table (book 1) or each has its own.
Workbook(n, layout, book) ==
    [max_row |-> n, merged |-> {m \in layout : m.max_row <= n}, book |-> book]

\* The lengths of the sheets of a run, in order.
RowLists == UNION {[1..n -> 1..MaxRow] : n \in 1..MaxFiles}

FileList(rows, layout, own) ==
    [k \in DOMAIN rows |-> Workbook(rows[k], layout, IF own THEN k ELSE 1)]

FileLists ==
    {FileList(q[1], q[2], q[3]) :
        q \in RowLists \X MergeLayouts(MaxRow) \X BOOLEAN}

\* Which columns of a source sheet carry a width.
column_dimensions == {1}

\* The style index each cell of a source sheet holds (0: no style).
StyleKey(r, c) == IF r = 1 THEN 1 ELSE IF c = 1 THEN 2 ELSE 0

\* A workbook's style tables: what a cell's style index resolves to there.
\* Index 1 names a different font in each workbook; index 2 the same style.
WorkbookStyles(book, key) ==
    IF key = 1
    THEN [font |-> <<"font", book>>, border |-> "thin", fill |-> "grey",
          number_format |-> "General", protection |-> "locked",
          alignment |-> "center"]
    ELSE [font |-> <<"font", 0>>, border |-> "none", fill |-> "none",
          number_format |-> "0.00", protection |-> "locked",
          alignment |-> "left"]

\* The style of a cell that was never styled.
DefaultStyle ==
    [font |-> <<"font", 0>>, border |-> "none", fill |-> "none",
     number_format |-> "General", protection |-> "locked",
     alignment |-> "general"]

file_path(k) == <<"dir", <<"name", k>>>>

os_path_basename(p) == p[2]

\* src_sheet.cell(row, column) of file k: a cell past the sheet is created empty.
src_cell(k, r, c) ==
    IF r <= files[k].max_row
    THEN [value |-> <<k, r, c>>, key |-> StyleKey(r, c), book |-> files[k].book]
    ELSE [value |-> None, key |-> 0, book |-> files[k].book]

has_style(sc) == sc.key # 0

\* ------------------------------------------------------- copying functions

\* copy_cell_v1: the target cell after the copy onto a fresh cell.
copy_cell_v1(sc) ==
    [value |-> sc.value,
     style |-> IF has_style(sc) THEN WorkbookStyles(sc.book, sc.key)
               ELSE DefaultStyle]

\* copy_cell_v2: the target cell, given the cache as it is at the call.
copy_cell_v2(sc, cache) ==
    [value |-> sc.value,
     style |-> IF has_style(sc)
               THEN IF sc.key \in DOMAIN cache
                    THEN cache[sc.key]
                    ELSE WorkbookStyles(sc.book, sc.key)
               ELSE DefaultStyle]

\* Mutant: the cache entry is stored on every styled cell, hit or miss.
cache_after_Overwrite(sc, cache) ==
    IF has_style(sc)
    THEN (sc.key :> WorkbookStyles(sc.book, sc.key)) @@ cache
    ELSE cache

\* style_cache after copy_cell_v2.
cache_after(sc, cache) ==
    IF has_style(sc) /\ sc.key \notin DOMAIN cache
    THEN (sc.key :> WorkbookStyles(sc.book, sc.key)) @@ cache
    ELSE cache

\* Mutant: source columns are not shifted past the filename column.
col_offset_NoShift == IF include_filename THEN 0 ELSE 0

col_offset == IF include_filename THEN 1 ELSE 0

\* style_cache after the cells 1..c of source row r of file k are copied.
RECURSIVE CacheAfterCols(_, _, _, _)
CacheAfterCols(k, r, c, cache) ==
    IF c = 0 THEN cache
    ELSE cache_after(src_cell(k, r, c), CacheAfterCols(k, r, c - 1, cache))

\* The target cell copy_cell gives source cell (r, c) within copy_row.
CopiedCell(k, r, c) ==
    IF use_version2
    THEN copy_cell_v2(src_cell(k, r, c), CacheAfterCols(k, r, c - 1, style_cache))
    ELSE copy_cell_v1(src_cell(k, r, c))

\* copy_row: the cells written into target row t from source row r of file k.
RowCells(k, r, t) ==
    [p \in {<<t, c + col_offset>> : c \in 1..MaxCol} \cup
           (IF include_filename THEN {<<t, 1>>} ELSE {}) |->
        IF include_filename /\ p[2] = 1
        THEN [value |-> os_path_basename(file_path(k)), style |-> DefaultStyle]
        ELSE CopiedCell(k, r, p[2] - col_offset)]

copy_row(k, r, t) ==
    /\ cells' = RowCells(k, r, t) @@ cells
    /\ style_cache' = IF use_version2
                      THEN CacheAfterCols(k, r, MaxCol, style_cache)
                      ELSE style_cache
    /\ writes' = Append(writes, [file |-> k, src_row |-> r, tgt_row |-> t])

\* ------------------------------------------------------------ merged cells

Inside(m, src_start_row, src_end_row) ==
    m.min_row >= src_start_row /\ m.max_row <= src_end_row

\* Mutant: the rows are not rebased on the window's first row.
Remap_NoRebase(m, src_start_row, tgt_start_row) ==
    [min_row |-> m.min_row + tgt_start_row,
     max_row |-> m.max_row + tgt_start_row,
     min_col |-> m.min_col + col_offset,
     max_col |-> m.max_col + col_offset]

Remap(m, src_start_row, tgt_start_row) ==
    [min_row |-> (m.min_row - src_start_row) + tgt_start_row,
     max_row |-> (m.max_row - src_start_row) + tgt_start_row,
     min_col |-> m.min_col + col_offset,
     max_col |-> m.max_col + col_offset]

\* tgt_sheet.merge_cells raises for a range outside the sheet.
merge_cells_raises(m) == m.max_col > MaxColumnIndex

\* The ranges copy_merged_cells hands to merge_cells.
Remapped(k, src_start_row, src_end_row, tgt_start_row) ==
    {Remap(m, src_start_row, tgt_start_row) :
        m \in {x \in files[k].merged : Inside(x, src_start_row, src_end_row)}}

copy_merged_cells(k, src_start_row, src_end_row, tgt_start_row) ==
    LET new == Remapped(k, src_start_row, src_end_row, tgt_start_row)
    IN /\ merged' = merged \cup {m \in new : ~merge_cells_raises(m)}
       /\ warnings' = warnings + Cardinality({m \in new : merge_cells_raises(m)})

\* ------------------------------------------------------------------ Init

Init ==
    /\ files \in FileLists
    /\ heading_rows \in 1..MaxHeading
    /\ delete_rows \in 0..MaxDelete
    /\ include_filename \in BOOLEAN
    /\ use_version2 \in BOOLEAN
    /\ cancel_event = FALSE
    /\ progress_queue = <<>>
    /\ pc = "start"
    /\ i = 1
    /\ src_row = 0
    /\ end_row = 0
    /\ tgt_row_idx = 0
    /\ block_tgt_start_row = 0
    /\ ws_max_row = 0
    /\ cells = <<>>
    /\ merged = {}
    /\ col_widths = {}
    /\ style_cache = <<>>
    /\ saved = FALSE
    /\ warnings = 0
    /\ writes = <<>>
    /\ loaded = {}
    /\ raised = NoRaise
    /\ worker_alive = TRUE
    /\ taken = 0
    /\ check_queue_pc = "idle"
    /\ finished = <<>>

\* The App's side: the thread object and check_queue's state.
app == <<worker_alive, taken, check_queue_pc, finished>>

inputs == <<files, heading_rows, delete_rows, include_filename, use_version2>>

\* --------------------------------------------- combine_excel_files_worker

put(message) == progress_queue' = Append(progress_queue, message)

Result(status) == [type |-> "result", status |-> status]

Progress(step, status_text) ==
    [type |-> "progress", step |-> step, status |-> status_text]

\* Lines 335-341: the new workbook, the row cursor, the cleared cache.
Start ==
    /\ pc = "start"
    /\ tgt_row_idx' = 1
    /\ style_cache' = <<>>
    /\ i' = 1
    /\ pc' = "check"
    /\ UNCHANGED <<app, inputs, cancel_event, progress_queue, src_row, end_row,
                   block_tgt_start_row, ws_max_row, cells, merged, col_widths,
                   saved, warnings, writes, loaded, raised>>

\* Mutant: the cancelled result is put but the worker does not return.
Cancelled_NoReturn ==
    /\ pc = "check"
    /\ i <= Len(files)
    /\ cancel_event
    /\ put(Result("cancelled"))
    /\ pc' = "load"
    /\ UNCHANGED <<app, inputs, cancel_event, i, src_row, end_row, tgt_row_idx,
                   block_tgt_start_row, ws_max_row, cells, merged, col_widths,
                   style_cache, saved, warnings, writes, loaded, raised>>

\* Lines 344-347: the cancel event is set at the top of the loop body.
Cancelled ==
    /\ pc = "check"
    /\ i <= Len(files)
    /\ cancel_event
    /\ put(Result("cancelled"))
    /\ pc' = "done"
    /\ UNCHANGED <<app, inputs, cancel_event, i, src_row, end_row, tgt_row_idx,
                   block_tgt_start_row, ws_max_row, cells, merged, col_widths,
                   style_cache, saved, warnings, writes, loaded, raised>>

\* Mutant: the step counts from 1.
ReportProgress_OneBased ==
    /\ pc = "check"
    /\ i <= Len(files)
    /\ ~cancel_event
    /\ put(Progress(i, os_path_basename(file_path(i))))
    /\ pc' = "load"
    /\ UNCHANGED <<app, inputs, cancel_event, i, src_row, end_row, tgt_row_idx,
                   block_tgt_start_row, ws_max_row, cells, merged, col_widths,
                   style_cache, saved, warnings, writes, loaded, raised>>

\* Lines 349-350: the progress message of file i (enumerate counts from 0).
ReportProgress ==
    /\ pc = "check"
    /\ i <= Len(files)
    /\ ~cancel_event
    /\ put(Progress(i - 1, os_path_basename(file_path(i))))
    /\ pc' = "load"
    /\ UNCHANGED <<app, inputs, cancel_event, i, src_row, end_row, tgt_row_idx,
                   block_tgt_start_row, ws_max_row, cells, merged, col_widths,
                   style_cache, saved, warnings, writes, loaded, raised>>

\* Lines 352-357: load_workbook returns for the first file; the header
\* loop begins.
\* Mutant: the first file's copy also starts after delete_rows.
LoadFirst_Deletes ==
    /\ pc = "load"
    /\ i = 1
    /\ loaded' = loaded \cup {i}
    /\ ws_max_row' = files[i].max_row
    /\ src_row' = delete_rows + 1
    /\ end_row' = heading_rows
    /\ pc' = "header"
    /\ UNCHANGED <<app, inputs, cancel_event, progress_queue, i, tgt_row_idx,
                   block_tgt_start_row, cells, merged, col_widths, style_cache,
                   saved, warnings, writes, raised>>

LoadFirst ==
    /\ pc = "load"
    /\ i = 1
    /\ loaded' = loaded \cup {i}
    /\ ws_max_row' = files[i].max_row
    /\ src_row' = 1
    /\ end_row' = heading_rows
    /\ pc' = "header"
    /\ UNCHANGED <<app, inputs, cancel_event, progress_queue, i, tgt_row_idx,
                   block_tgt_start_row, cells, merged, col_widths, style_cache,
                   saved, warnings, writes, raised>>

\* Mutant: break instead of continue.
SkipFile_Break ==
    /\ pc = "load"
    /\ i # 1
    /\ delete_rows + 1 > files[i].max_row
    /\ loaded' = loaded \cup {i}
    /\ ws_max_row' = files[i].max_row
    /\ i' = Len(files) + 1
    /\ pc' = "check"
    /\ UNCHANGED <<app, inputs, cancel_event, progress_queue, src_row, end_row,
                   tgt_row_idx, block_tgt_start_row, cells, merged, col_widths,
                   style_cache, saved, warnings, writes, raised>>

\* Lines 352-354 and 374-375: a later file with no row past the deleted
\* ones: continue.
SkipFile ==
    /\ pc = "load"
    /\ i # 1
    /\ delete_rows + 1 > files[i].max_row
    /\ loaded' = loaded \cup {i}
    /\ ws_max_row' = files[i].max_row
    /\ i' = i + 1
    /\ pc' = "check"
    /\ UNCHANGED <<app, inputs, cancel_event, progress_queue, src_row, end_row,
                   tgt_row_idx, block_tgt_start_row, cells, merged, col_widths,
                   style_cache, saved, warnings, writes, raised>>

\* Lines 352-354 and 374-378: a later file; its block begins at the cursor.
LoadBlock ==
    /\ pc = "load"
    /\ i # 1
    /\ ~(delete_rows + 1 > files[i].max_row)
    /\ loaded' = loaded \cup {i}
    /\ ws_max_row' = files[i].max_row
    /\ block_tgt_start_row' = tgt_row_idx
    /\ src_row' = delete_rows + 1
    /\ end_row' = files[i].max_row
    /\ pc' = "block"
    /\ UNCHANGED <<app, inputs, cancel_event, progress_queue, i, tgt_row_idx, cells,
                   merged, col_widths, style_cache, saved, warnings, writes,
                   raised>>

\* Lines 389-391: the except clause.
Raise(op) ==
    /\ raised' = [op |-> op, file |-> i]
    /\ put(Result("error"))
    /\ pc' = "done"

\* Mutant: a file that cannot be loaded is passed over.
LoadRaises_Continue ==
    /\ pc = "load"
    /\ loaded' = loaded \cup {i}
    /\ raised' = [op |-> "load", file |-> i]
    /\ i' = i + 1
    /\ pc' = "check"
    /\ UNCHANGED <<app, inputs, cancel_event, progress_queue, src_row, end_row,
                   tgt_row_idx, block_tgt_start_row, ws_max_row, cells, merged,
                   col_widths, style_cache, saved, warnings, writes>>

\* Line 352: load_workbook raises (unreadable or corrupt file).
LoadRaises ==
    /\ pc = "load"
    /\ loaded' = loaded \cup {i}
    /\ Raise("load")
    /\ UNCHANGED <<app, inputs, cancel_event, i, src_row, end_row, tgt_row_idx,
                   block_tgt_start_row, ws_max_row, cells, merged, col_widths,
                   style_cache, saved, warnings, writes>>

\* Mutant: the cancel event is also checked before every row.
CopyOneRow_ChecksCancel ==
    /\ src_row <= end_row
    /\ IF cancel_event
       THEN /\ put(Result("cancelled"))
            /\ pc' = "done"
            /\ UNCHANGED <<cells, style_cache, writes, tgt_row_idx, src_row,
                           ws_max_row>>
       ELSE /\ copy_row(i, src_row, tgt_row_idx)
            /\ tgt_row_idx' = tgt_row_idx + 1
            /\ src_row' = src_row + 1
            /\ ws_max_row' = IF src_row > ws_max_row THEN src_row ELSE ws_max_row
            /\ UNCHANGED <<progress_queue, pc>>
    /\ UNCHANGED <<app, inputs, cancel_event, i, end_row, block_tgt_start_row,
                   merged, col_widths, saved, warnings, loaded, raised>>

\* Mutant: the row cursor is not advanced.
CopyOneRow_NoAdvance ==
    /\ src_row <= end_row
    /\ copy_row(i, src_row, tgt_row_idx)
    /\ tgt_row_idx' = tgt_row_idx
    /\ src_row' = src_row + 1
    /\ ws_max_row' = IF src_row > ws_max_row THEN src_row ELSE ws_max_row
    /\ UNCHANGED <<app, inputs, cancel_event, progress_queue, pc, i, end_row,
                   block_tgt_start_row, merged, col_widths, saved, warnings,
                   loaded, raised>>

\* One iteration of a row loop (lines 357-359, 363-365, 378-380).
CopyOneRow ==
    /\ src_row <= end_row
    /\ copy_row(i, src_row, tgt_row_idx)
    /\ tgt_row_idx' = tgt_row_idx + 1
    /\ src_row' = src_row + 1
    /\ ws_max_row' = IF src_row > ws_max_row THEN src_row ELSE ws_max_row
    /\ UNCHANGED <<app, inputs, cancel_event, progress_queue, pc, i, end_row,
                   block_tgt_start_row, merged, col_widths, saved, warnings,
                   loaded, raised>>

HeaderRow == pc = "header" /\ CopyOneRow

DataRow == pc = "data" /\ CopyOneRow

BlockRow == pc = "block" /\ CopyOneRow

\* copy_row raises (lines 358, 364, 379). The cells of the interrupted row
\* are not tracked: the except clause drops the workbook unsaved.
CopyRaises ==
    /\ pc \in {"header", "data", "block"}
    /\ src_row <= end_row
    /\ Raise("copy")
    /\ UNCHANGED <<app, inputs, cancel_event, i, src_row, end_row, tgt_row_idx,
                   block_tgt_start_row, ws_max_row, cells, merged, col_widths,
                   style_cache, saved, warnings, writes, loaded>>

\* Lines 360-363: the header window's merged ranges; the data loop begins.
HeaderMerged ==
    /\ pc = "header"
    /\ src_row > end_row
    /\ copy_merged_cells(i, 1, heading_rows, 1)
    /\ src_row' = heading_rows + 1
    /\ end_row' = ws_max_row
    /\ pc' = "data"
    /\ UNCHANGED <<app, inputs, cancel_event, progress_queue, i, tgt_row_idx,
                   block_tgt_start_row, ws_max_row, cells, col_widths,
                   style_cache, saved, warnings, writes, loaded, raised>>

\* Lines 366-372: the data window's merged ranges and the column widths.
DataMerged ==
    /\ pc = "data"
    /\ src_row > end_row
    /\ copy_merged_cells(i, heading_rows + 1, ws_max_row, heading_rows + 1)
    /\ col_widths' = col_widths \cup {c + col_offset : c \in column_dimensions}
    /\ i' = i + 1
    /\ pc' = "check"
    /\ UNCHANGED <<app, inputs, cancel_event, progress_queue, src_row, end_row,
                   tgt_row_idx, block_tgt_start_row, ws_max_row, cells,
                   style_cache, saved, writes, loaded, raised>>

\* Line 381: the merged ranges of a later file's block.
BlockMerged ==
    /\ pc = "block"
    /\ src_row > end_row
    /\ copy_merged_cells(i, delete_rows + 1, ws_max_row, block_tgt_start_row)
    /\ i' = i + 1
    /\ pc' = "check"
    /\ UNCHANGED <<app, inputs, cancel_event, progress_queue, src_row, end_row,
                   tgt_row_idx, block_tgt_start_row, ws_max_row, cells,
                   col_widths, style_cache, saved, writes, loaded, raised>>

\* Line 383: the loop is over; the 'saving' progress message.
ReportSaving ==
    /\ pc = "check"
    /\ i > Len(files)
    /\ put(Progress(Len(files), "Saving combined file..."))
    /\ pc' = "save"
    /\ UNCHANGED <<app, inputs, cancel_event, i, src_row, end_row, tgt_row_idx,
                   block_tgt_start_row, ws_max_row, cells, merged, col_widths,
                   style_cache, saved, warnings, writes, loaded, raised>>

\* Lines 384-387: the save returns and the success result is put.
Save ==
    /\ pc = "save"
    /\ saved' = TRUE
    /\ put(Result("success"))
    /\ pc' = "done"
    /\ UNCHANGED <<app, inputs, cancel_event, i, src_row, end_row, tgt_row_idx,
                   block_tgt_start_row, ws_max_row, cells, merged, col_widths,
                   style_cache, warnings, writes, loaded, raised>>

\* Line 384: the save raises (permissions, disk space).
SaveRaises ==
    /\ pc = "save"
    /\ Raise("save")
    /\ UNCHANGED <<app, inputs, cancel_event, i, src_row, end_row, tgt_row_idx,
                   block_tgt_start_row, ws_max_row, cells, merged, col_widths,
                   style_cache, saved, warnings, writes, loaded>>

\* ProgressManager.request_cancel, confirmed by the user, while the
\* progress window is open.
request_cancel ==
    /\ pc # "done"
    /\ ~cancel_event
    /\ cancel_event' = TRUE
    /\ UNCHANGED <<app, inputs, progress_queue, pc, i, src_row, end_row, tgt_row_idx,
                   block_tgt_start_row, ws_max_row, cells, merged, col_widths,
                   style_cache, saved, warnings, writes, loaded, raised>>

Worker ==
    \/ Start
    \/ Cancelled
    \/ ReportProgress
    \/ LoadFirst
    \/ SkipFile
    \/ LoadBlock
    \/ LoadRaises
    \/ HeaderRow
    \/ HeaderMerged
    \/ DataRow
    \/ DataMerged
    \/ BlockRow
    \/ BlockMerged
    \/ CopyRaises
    \/ ReportSaving
    \/ Save
    \/ SaveRaises

Next == Worker \/ request_cancel

Spec == Init /\ [][Next]_vars

\* Whether the worker returns does not depend on what the cells hold: the
\* runs checked for it combine workbooks that differ in length only.
PlainInit ==
    /\ Init
    /\ \A k \in DOMAIN files : files[k].merged = {} /\ files[k].book = 1

\* The worker thread runs until it returns.
FairSpec == PlainInit /\ [][Next]_vars /\ WF_vars(Worker)

\* ------------------------------------------------------- App.check_queue

\* What the worker thread and the cancel button own.
engine == <<inputs, cancel_event, progress_queue, pc, i, src_row, end_row,
            tgt_row_idx, block_tgt_start_row, ws_max_row, cells, merged,
            col_widths, style_cache, saved, warnings, writes, loaded, raised>>

\* message['data'] of a result message; the text is the worker's own.
data(message) == [status |-> message.status, message |-> "worker's message"]

\* The result check_queue makes up when the thread is not alive.
Unexpected ==
    [status |-> "error",
     message |-> "The worker thread terminated unexpectedly."]

\* on_task_finished: the result is shown and the root window destroyed, so
\* no callback runs any more.
on_task_finished(result) ==
    /\ finished' = Append(finished, result)
    /\ check_queue_pc' = "destroyed"

\* The worker function has returned (after its last put): the thread ends.
ThreadExit ==
    /\ pc = "done"
    /\ worker_alive
    /\ worker_alive' = FALSE
    /\ UNCHANGED <<engine, taken, check_queue_pc, finished>>

\* root.after(100, self.check_queue): the event loop calls check_queue.
CheckQueueCalled ==
    /\ check_queue_pc = "idle"
    /\ check_queue_pc' = "get"
    /\ UNCHANGED <<engine, worker_alive, taken, finished>>

\* Lines 511-513: get(block=False) returns a progress message.
GetProgress ==
    /\ check_queue_pc = "get"
    /\ taken < Len(progress_queue)
    /\ progress_queue[taken + 1].type = "progress"
    /\ taken' = taken + 1
    /\ UNCHANGED <<engine, worker_alive, check_queue_pc, finished>>

\* Lines 514-516: get(block=False) returns the result message.
GetResult ==
    /\ check_queue_pc = "get"
    /\ taken < Len(progress_queue)
    /\ progress_queue[taken + 1].type = "result"
    /\ taken' = taken + 1
    /\ on_task_finished(data(progress_queue[taken + 1]))
    /\ UNCHANGED <<engine, worker_alive>>

\* Lines 517-518: get(block=False) raises queue.Empty, the loop is left.
GetEmpty ==
    /\ check_queue_pc = "get"
    /\ taken = Len(progress_queue)
    /\ check_queue_pc' = "is_alive"
    /\ UNCHANGED <<engine, worker_alive, taken, finished>>

\* Lines 520-521: the thread is alive; check_queue runs again 100 ms later.
StillAlive ==
    /\ check_queue_pc = "is_alive"
    /\ worker_alive
    /\ check_queue_pc' = "idle"
    /\ UNCHANGED <<engine, worker_alive, taken, finished>>

\* Lines 522-523: the thread is not alive.
NotAlive ==
    /\ check_queue_pc = "is_alive"
    /\ ~worker_alive
    /\ on_task_finished(Unexpected)
    /\ UNCHANGED <<engine, worker_alive, taken>>

check_queue ==
    \/ CheckQueueCalled
    \/ GetProgress
    \/ GetResult
    \/ GetEmpty
    \/ StillAlive
    \/ NotAlive

\* The cancel button's callback runs in the event loop, as check_queue does:
\* between two calls of check_queue, never within one.
CancelClicked == check_queue_pc = "idle" /\ request_cancel

\* The worker thread, and in the main thread the cancel button and the
\* polling of the queue.
AppNext == Worker \/ ThreadExit \/ CancelClicked \/ check_queue

AppSpec == PlainInit /\ [][AppNext]_vars

\* ------------------------------------------------- vocabulary of the claims

NumFiles == Len(files)

ResultAt == {j \in 1..Len(progress_queue) : progress_queue[j].type = "result"}

ProgressAt == {j \in 1..Len(progress_queue) : progress_queue[j].type = "progress"}

\* The status of the result message at the end of the queue.
LastStatus ==
    IF Len(progress_queue) > 0 /\ progress_queue[Len(progress_queue)].type = "result"
    THEN progress_queue[Len(progress_queue)].status
    ELSE "none"

Succeeded == pc = "done" /\ LastStatus = "success"

Max(a, b) == IF a >= b THEN a ELSE b

\* The rows a later file adds: max(0, lastRow - deleteRowsOthers).
LaterRows(k) == Max(0, files[k].max_row - delete_rows)

RECURSIVE SumLaterRows(_)
SumLaterRows(k) == IF k <= 1 THEN 0 ELSE LaterRows(k) + SumLaterRows(k - 1)

\* ----------------------------------------------------------------- C1

\* C1: every copied cell of the output holds the value and the resolved
\* style attributes that copy_cell_v1 gives it from its source cell,
\* whichever strategy ran and however many workbooks are combined.
C1_StrategiesAgree ==
    \A j \in 1..Len(writes) : \A c \in 1..MaxCol :
        cells[<<writes[j].tgt_row, c + col_offset>>] =
            copy_cell_v1(src_cell(writes[j].file, writes[j].src_row, c))

\* The strategies do agree while every copied cell comes from workbooks
\* that share one style table.
C1_AgreeWithinOneStyleTable ==
    (\A j \in 1..Len(writes) : files[writes[j].file].book = 1)
        => C1_StrategiesAgree

\* ----------------------------------------------------------------- C2

\* C2: every run eventually puts exactly one result message, with status
\* success, cancelled or error, and no message is put after it.
C2_OneFinalResult ==
    /\ <>(Cardinality(ResultAt) = 1)
    /\ [](/\ Cardinality(ResultAt) <= 1
          /\ ResultAt # {} =>
                /\ ResultAt = {Len(progress_queue)}
                /\ LastStatus \in {"success", "cancelled", "error"})
    /\ [][ResultAt # {} => progress_queue' = progress_queue]_vars

C2_Witness ==
    /\ pc = "done"
    /\ LastStatus = "success"
    /\ NumFiles = 2
    /\ cancel_event

\* ----------------------------------------------------------------- C3

\* A progress message of file k (0-based step k - 1) or later.
ProgressFrom(k) ==
    \E j \in ProgressAt : progress_queue[j].step >= k - 1

\* C3: a cancel event found set at the boundary check of file i ends the
\* run Cancelled, with no progress message of file i or later, no row of
\* file i or later copied and the output never saved; the event is acted on
\* nowhere else, so a file once begun is copied to its last row.
C3_CancelAtBoundaryOnly ==
    /\ [][(pc = "check" /\ i <= NumFiles /\ cancel_event /\ pc' # pc)
            => (pc' = "done" /\ LastStatus' = "cancelled")]_vars
    /\ [][LastStatus' = "cancelled" /\ LastStatus # "cancelled"
            => (pc = "check" /\ i <= NumFiles /\ cancel_event)]_vars
    /\ [](LastStatus = "cancelled" =>
            /\ pc = "done"
            /\ ~saved
            /\ ~ProgressFrom(i)
            /\ \A j \in 1..Len(writes) : writes[j].file < i
            /\ \A k \in loaded : k < i
            /\ \A k \in 2..(i - 1) :
                 Cardinality({j \in 1..Len(writes) : writes[j].file = k})
                    = LaterRows(k))

C3_Witness ==
    /\ LastStatus = "cancelled"
    /\ i = 3
    /\ \E j \in 1..Len(writes) : writes[j].file = 2 /\ writes[j].src_row = MaxRow

\* ----------------------------------------------------------------- C4

\* C4: the progress steps of a run increase strictly; a run that ends in
\* Success over n files has put the steps 0 .. n-1, one per file, then the
\* saving message at step n, then the result, and the save came after the
\* saving message.
C4_ProgressSteps ==
    /\ \A a \in ProgressAt : \A b \in ProgressAt :
          a < b => progress_queue[a].step < progress_queue[b].step
    /\ saved =>
          \E j \in ProgressAt : /\ progress_queue[j].step = NumFiles
                                /\ progress_queue[j].status = "Saving combined file..."
    /\ Succeeded =>
          /\ Len(progress_queue) = NumFiles + 2
          /\ ProgressAt = 1..(NumFiles + 1)
          /\ \A j \in 1..(NumFiles + 1) : progress_queue[j].step = j - 1
          /\ \A j \in 1..NumFiles :
                progress_queue[j].status = os_path_basename(file_path(j))
          /\ progress_queue[NumFiles + 1].status = "Saving combined file..."
          /\ saved

C4_Witness ==
    /\ Succeeded
    /\ NumFiles = 3
    /\ delete_rows >= files[2].max_row
    /\ \E j \in 1..Len(writes) : writes[j].file = 3

\* ----------------------------------------------------------------- C5

\* C5: a successful run whose first file has at least heading_rows rows
\* has copied exactly lastRow(file 1) + the sum over the later files of
\* max(0, lastRow - delete_rows) rows, to the output rows 1, 2, 3, ... in
\* file order and source-row order, each output row written once.
C5_RowCount ==
    (Succeeded /\ files[1].max_row >= heading_rows) =>
        /\ Len(writes) = files[1].max_row + SumLaterRows(NumFiles)
        /\ \A j \in 1..Len(writes) : writes[j].tgt_row = j
        /\ \A a \in 1..Len(writes) : \A b \in 1..Len(writes) :
              a < b => \/ writes[a].file < writes[b].file
                       \/ /\ writes[a].file = writes[b].file
                          /\ writes[a].src_row < writes[b].src_row
        /\ {p[1] : p \in DOMAIN cells} = 1..Len(writes)

C5_Witness ==
    /\ Succeeded
    /\ NumFiles = 2
    /\ files[1].max_row = 2
    /\ files[2].max_row = 2
    /\ heading_rows = 1
    /\ delete_rows = 1
    /\ Len(writes) = 3

\* ----------------------------------------------------------------- C6

\* A later file with no row past the deleted ones.
Skipped(k) == k \in 2..NumFiles /\ delete_rows >= files[k].max_row

\* C6: a later file with delete_rows >= its last row adds no row and no
\* merged range and leaves the row cursor where it was; unless its load
\* raises, the worker goes on to the next file, whose rows follow the last
\* row written before.
C6_SkippedFileAddsNothing ==
    /\ [](\A j \in 1..Len(writes) : ~Skipped(writes[j].file))
    /\ [](\A j \in 1..(Len(writes) - 1) :
            writes[j + 1].tgt_row = writes[j].tgt_row + 1)
    /\ [][Skipped(i) =>
            /\ cells' = cells
            /\ merged' = merged
            /\ writes' = writes
            /\ tgt_row_idx' = tgt_row_idx]_vars
    /\ [][(pc = "load" /\ Skipped(i) /\ pc' # pc) =>
            \/ raised'.op = "load"
            \/ /\ raised' = NoRaise
               /\ pc' = "check"
               /\ i' = i + 1]_vars

C6_Witness ==
    /\ NumFiles = 3
    /\ Skipped(2)
    /\ \E j \in 1..Len(writes) :
          /\ j > 1
          /\ writes[j].file = 3
          /\ writes[j - 1].file = 1

\* ----------------------------------------------------------------- C7

\* The row windows copied from file k: [first row, last row].
Windows(k) ==
    IF k = 1
    THEN {<<1, heading_rows>>,
          <<heading_rows + 1, Max(files[1].max_row, heading_rows)>>}
    ELSE {<<delete_rows + 1, files[k].max_row>>}

\* The output rows that hold the copies of rows r1..r2 of file k.
TgtRowsOf(k, r1, r2) ==
    {writes[j].tgt_row :
        j \in {x \in 1..Len(writes) :
                 writes[x].file = k /\ writes[x].src_row \in r1..r2}}

RowsOverlap(x, rows) == (x.min_row..x.max_row) \cap rows # {}

\* The output range of merged range m of window w of file k: rows shifted
\* by (output row where the window began - the window's first row).
Shifted(k, w, m) ==
    LET began == CHOOSE t \in TgtRowsOf(k, w[1], w[1]) : TRUE
        off == IF include_filename THEN 1 ELSE 0
    IN [min_row |-> m.min_row + (began - w[1]),
        max_row |-> m.max_row + (began - w[1]),
        min_col |-> m.min_col + off,
        max_col |-> m.max_col + off]

\* C7: once a file is processed, each of its merged ranges that lies inside
\* one of its copied windows is registered as exactly one output range,
\* shifted by the window's row delta and the column offset, and that range
\* covers exactly the output rows holding the copies of the range's rows.
C7_MergedRangeRemapped ==
    \A k \in 1..NumFiles : k < i =>
      \A w \in Windows(k) : \A m \in files[k].merged :
        (m.min_row >= w[1] /\ m.max_row <= w[2]) =>
           /\ Shifted(k, w, m) \in merged
           /\ {x \in merged : RowsOverlap(x, TgtRowsOf(k, m.min_row, m.max_row))}
                 = {Shifted(k, w, m)}
           /\ Shifted(k, w, m).min_row .. Shifted(k, w, m).max_row
                 = TgtRowsOf(k, m.min_row, m.max_row)

C7_Witness ==
    /\ include_filename
    /\ i > 2
    /\ delete_rows = 1
    /\ MergeRange(2, 2) \in files[2].merged
    /\ files[1].max_row = 2
    /\ [min_row |-> 3, max_row |-> 3, min_col |-> 2, max_col |-> MaxCol + 1]
          \in merged

\* ----------------------------------------------------------------- C8

\* The merged ranges of processed files that overlap a copied window
\* without lying inside it.
PartialRanges ==
    {q \in UNION {{<<k, m>> : m \in files[k].merged} :
                     k \in {x \in 1..NumFiles : x < i}} :
        \E w \in Windows(q[1]) :
            /\ q[2].min_row <= w[2]
            /\ q[2].max_row >= w[1]
            /\ ~(q[2].min_row >= w[1] /\ q[2].max_row <= w[2])}

\* No output range, whole or truncated, lies on the copies of the rows of a
\* partially overlapping range.
C8_PartialRangeDropped ==
    \A q \in PartialRanges : \A x \in merged :
        ~RowsOverlap(x, TgtRowsOf(q[1], q[2].min_row, q[2].max_row))

\* C8: a merged range that only partially overlaps a copied window is
\* dropped, never registered truncated, and a warning line is printed for
\* it; the run is not aborted.
C8_PartialRangeWarned ==
    /\ C8_PartialRangeDropped
    /\ raised.op \in {"none", "load", "copy", "save"}
    /\ PartialRanges # {} => warnings >= 1

\* ----------------------------------------------------------------- C9

\* C9: a first file with fewer rows than heading_rows makes the run fail:
\* the output is never saved and a run that was not cancelled ends with an
\* error result.
C9_ShortFirstFileFails ==
    files[1].max_row < heading_rows =>
        /\ ~saved
        /\ (pc = "done" /\ ~cancel_event) => LastStatus = "error"

\* ----------------------------------------------------------------- C10

\* C10: once a load, a copy or the save has raised, the run has ended with
\* an error result and the output is not saved; after a load or copy of
\* file k raised, no later file is loaded or copied and no saving message
\* is put.
C10_ExceptionFails ==
    raised # NoRaise =>
        /\ pc = "done"
        /\ LastStatus = "error"
        /\ ~saved
        /\ \A j \in ResultAt : progress_queue[j].status # "success"
        /\ raised.op \in {"load", "copy"} =>
              /\ \A k \in loaded : k <= raised.file
              /\ \A j \in 1..Len(writes) : writes[j].file <= raised.file
              /\ \A j \in ProgressAt :
                    /\ progress_queue[j].status # "Saving combined file..."
                    /\ progress_queue[j].step < raised.file
        /\ raised.op = "save" => loaded = 1..NumFiles

C10_Witness ==
    /\ raised = [op |-> "copy", file |-> 2]
    /\ NumFiles = 3
    /\ \E j \in 1..Len(writes) : writes[j].file = 2

\* ---------------------------------------------------------------------- C11
\* The cells of target row w.tgt_row in sheet tgt hold source row w.src_row
\* of file w.file: the base name in column 1 and column c in column c + 1
\* with the filename column, column c in column c without it.
RowHolds(tgt, w) ==
    LET k == w.file
        r == w.src_row
        t == w.tgt_row
    IN IF include_filename
       THEN /\ <<t, 1>> \in DOMAIN tgt
            /\ tgt[<<t, 1>>].value = os_path_basename(file_path(k))
            /\ \A c \in 1..MaxCol :
                   /\ <<t, c + 1>> \in DOMAIN tgt
                   /\ tgt[<<t, c + 1>>].value = src_cell(k, r, c).value
       ELSE \A c \in 1..MaxCol :
                /\ <<t, c>> \in DOMAIN tgt
                /\ tgt[<<t, c>>].value = src_cell(k, r, c).value

\* C11: every step that copies a row (header or data) leaves, with the
\* filename column, the base name of the row's file in column 1 and the
\* value of source column c in column c + 1; without it, source column c in
\* column c, no cell past the source's columns and no cell holding a file's
\* base name; and no step changes a cell written before it, so every output
\* row holds this at every later point of the run.
C11_FilenameColumn ==
    [][/\ \A j \in (Len(writes) + 1)..Len(writes') : RowHolds(cells', writes'[j])
       /\ ~include_filename =>
             \A p \in DOMAIN cells' \ DOMAIN cells :
                 /\ p[2] \in 1..MaxCol
                 /\ \A f \in 1..NumFiles :
                        cells'[p].value # os_path_basename(file_path(f))
       /\ \A p \in DOMAIN cells :
             p \in DOMAIN cells' /\ cells'[p] = cells[p]]_vars

\* A finished run with the filename column that copied a header row of the
\* first file and a row of the second.
C11_Witness ==
    /\ Succeeded
    /\ include_filename
    /\ \E j \in 1..Len(writes) : writes[j].file = 1 /\ writes[j].src_row <= heading_rows
    /\ \E j \in 1..Len(writes) : writes[j].file = 2

\* ---------------------------------------------------------------------- C12

\* The rows the first file gives the output (header loop, then data loop).
FirstRows == Max(files[1].max_row, heading_rows)

\* Output cell (r, col) of the first file's rows, from the source alone.
FirstCell(r, col) ==
    IF include_filename /\ col = 1
    THEN [value |-> os_path_basename(file_path(1)), style |-> DefaultStyle]
    ELSE LET c == IF include_filename THEN col - 1 ELSE col
             sc == src_cell(1, r, c)
         IN [value |-> sc.value,
             style |-> IF sc.key = 0 THEN DefaultStyle
                       ELSE WorkbookStyles(files[1].book, sc.key)]

FirstCols == 1..(MaxCol + IF include_filename THEN 1 ELSE 0)

\* The first file's merged ranges that lie in rows 1..heading_rows or in
\* rows heading_rows+1..FirstRows, at their own rows, columns shifted past
\* the filename column.
FirstMerged ==
    {[min_row |-> m.min_row, max_row |-> m.max_row,
      min_col |-> m.min_col + IF include_filename THEN 1 ELSE 0,
      max_col |-> m.max_col + IF include_filename THEN 1 ELSE 0] :
        m \in {x \in files[1].merged :
                  \/ x.max_row <= heading_rows
                  \/ x.min_row > heading_rows /\ x.max_row <= FirstRows}}

\* What the first file gives the output, at a state.
FirstFileHolds ==
    /\ i > 1 =>
         /\ \A r \in 1..FirstRows : \A col \in FirstCols :
                /\ <<r, col>> \in DOMAIN cells
                /\ cells[<<r, col>>] = FirstCell(r, col)
         /\ {x \in merged : x.min_row <= FirstRows} = FirstMerged
         /\ SelectSeq(writes, LAMBDA w : w.file = 1)
               = [r \in 1..FirstRows |->
                    [file |-> 1, src_row |-> r, tgt_row |-> r]]
    /\ (NumFiles = 1 /\ Succeeded) =>
         /\ DOMAIN cells = (1..FirstRows) \X FirstCols
         /\ merged = FirstMerged
         /\ {progress_queue[j].status : j \in ResultAt} = {"success"}
         /\ (~include_filename /\ heading_rows <= files[1].max_row) =>
               \A r \in 1..files[1].max_row : \A c \in 1..MaxCol :
                   cells[<<r, c>>] = copy_cell_v1(src_cell(1, r, c))

\* C12: FirstRows, FirstCell and FirstMerged are written without delete_rows,
\* and in every run, for every delete_rows, once the first file is processed
\* its rows 1..FirstRows of the output are FirstCell (row r is source row r,
\* value and style), the ranges on those rows are FirstMerged and the first
\* file's copies are row r to row r; a successful run on a single file has
\* nothing else in the output and ends with the one report 'success'.
C12_FirstFileIndependent == []FirstFileHolds

\* A finished single-file run, no filename column, heading rows within the
\* sheet, a merged range in the sheet and a non-zero delete_rows.
C12_Witness ==
    /\ NumFiles = 1
    /\ Succeeded
    /\ ~include_filename
    /\ heading_rows <= files[1].max_row
    /\ delete_rows = 1
    /\ files[1].merged # {}
    /\ merged # {}

\* ---------------------------------------------------------------------- C13

\* The style keys of the styled cells copied so far.
KeysCopied ==
    {q \in {src_cell(writes[j].file, writes[j].src_row, c).key :
               j \in 1..Len(writes), c \in 1..MaxCol} : q # 0}

\* style_cache at a state: empty until a row is copied, and its keys are
\* keys of copied cells, so never more entries than distinct keys.
CacheBounded ==
    /\ (pc # "start" /\ writes = <<>>) => style_cache = <<>>
    /\ DOMAIN style_cache \subseteq KeysCopied
    /\ Cardinality(DOMAIN style_cache) <= Cardinality(KeysCopied)

\* style_cache over a step: every entry stays as it is, and a new entry is
\* for a key that no cell copied before the step had.
CacheAppendOnly ==
    /\ \A q \in DOMAIN style_cache :
           q \in DOMAIN style_cache' /\ style_cache'[q] = style_cache[q]
    /\ \A q \in DOMAIN style_cache' \ DOMAIN style_cache :
           q \notin KeysCopied /\ q \in KeysCopied'

\* C13: style_cache is empty when the run starts copying; in every step an
\* existing entry is neither remapped nor removed and an entry is added only
\* for a style key that occurs for the first time; at every state the
\* entries are at most the distinct style keys of the cells copied so far.
C13_StyleCacheAppendOnly == [](CacheBounded) /\ [][CacheAppendOnly]_vars

\* A cache-assisted run that copied rows of two workbooks with their own
\* style tables: more styled cells copied than cache entries.
C13_Witness ==
    /\ use_version2
    /\ Cardinality(DOMAIN style_cache) = 2
    /\ \E j \in 1..Len(writes) : writes[j].file = 2 /\ writes[j].src_row = 1
    /\ files[1].book # files[2].book
    /\ Len(writes) >= 3

\* ---------------------------------------------------------------------- C14

\* on_task_finished is called at most once per run.
C14_FinishedAtMostOnce == Len(finished) <= 1

\* C14: under every interleaving, what check_queue hands to
\* on_task_finished in a run where the worker has put a result is that
\* result, never 'The worker thread terminated unexpectedly.', and it is
\* handed over once.
C14_ConsumerReportsWorkerResult ==
    /\ Len(finished) <= 1
    /\ \A j \in 1..Len(finished) :
          ResultAt # {} =>
             /\ finished[j] # Unexpected
             /\ finished[j].status = LastStatus

====
